---- MODULE Spec2Model ----
(***************************************************************************)
(* A model of graper/network/downloader.py.                                *)
(*                                                                         *)
(*   Part I   LimitRedisCookiePool: consumers sharing one Redis sorted     *)
(*            set; get() is a range query followed by a separate zadd.     *)
(*   Part II  Downloader.download: the two-pass scheme-fallback loop       *)
(*            around the retried _download.                                *)
(*   Part III CookiePool: the bounded in-memory deque.                     *)
(*   Part IV  Downloader.prepare_request and the client chosen by          *)
(*            _download_by_httpx, as functions of their arguments.         *)
(*   Part V   UserAgentPool: lazy init() under concurrent get() calls.     *)
(*   Part VI  Downloader.close.                                            *)
(*   Part VII convert_http_protocol applied repeatedly.                    *)
(***************************************************************************)
EXTENDS Integers, Sequences, FiniteSets, TLC

\* ------------------------------------------------------------------ bounds
MaxTime == 2
MaxLimit == 1
MaxJitter == 1
MaxDelay == 1
MaxRetry == 2

Procs == {"p1", "p2"}
Cookies == {"c1", "c2"}
None == "None"

VARIABLES
    \* ---- Part I: LimitRedisCookiePool
    now,          \* time.time(), in whole seconds
    limit,        \* self.limit
    with_random,  \* self.with_random
    zset,         \* the sorted set at self.cookie_key: member -> score
    pc,           \* position of each consumer inside get()
    retry,        \* get()'s retry argument
    i,            \* loop index of `for i in range(retry)`
    _limit,       \* get()'s local _limit
    cookie,       \* get()'s local cookie
    slept,        \* a second has passed since time.sleep(1) began
    \* ---- history of Part I (not program state)
    selT,         \* time of the range query that chose `cookie`
    nq, ns, nw,   \* range queries, sleeps, zadd writes of the current call
    lastSel,      \* per cookie: the latest query time among completed calls that returned it
    lastW,        \* per cookie in the set: the last write of its score, and for
                  \* add() whether the cookie was absent before (fresh)
    deleted,      \* per cookie: delete() completed, no add() since
    track,        \* which of the histories lastSel, lastW, deleted this run records
    \* ---- Part II: Downloader
    proxy_enable,   \* self.proxy_enable
    show_fail_log,  \* self.show_fail_log
    show_error_log, \* self.show_error_log
    proxy_pool,     \* what self.proxy_pool.get() yields: "empty", "full" or "flaky"
    proxies_given,  \* the caller passed `proxies` to download
    dpc,            \* position inside download
    request,        \* download's local `request`
    dl_i,           \* loop index of `for i in range(2)`
    response,       \* download's local `response`
    exception,      \* download's local `exception`
    is_converted,   \* download's local `is_converted`
    e,              \* the exception caught by `except Exception as e`
    tries,          \* attempt number inside the retried _download
    \* ---- history of Part II (not program state)
    runs,           \* the request each call of _download was given
    outs,           \* how each call of _download ended: an exception or NoException
    nflips,         \* calls of convert_http_protocol
    ntransport,     \* requests handed to the transport
    logs            \* records written to the logger by download

poolVars == <<now, limit, with_random, zset, pc, retry, i, _limit, cookie, slept,
              selT, nq, ns, nw, lastSel, lastW, deleted, track>>

dlVars == <<proxy_enable, show_fail_log, show_error_log, proxy_pool, proxies_given,
            dpc, request, dl_i, response, exception, is_converted, e, tries,
            runs, outs, nflips, ntransport, logs>>

VARIABLES
    \* ---- Part III: CookiePool
    self_cookie_list,    \* self.cookie_list, oldest first; a cookie is the number of its add()
    \* ---- history of Part III (not program state)
    nadd,           \* calls of add() so far
    streak,         \* calls of add() since the last get()
    lost,           \* cookies that were followed by MaxLen consecutive add() calls
    got,            \* what the last get() returned
    op,             \* the last operation: "add", "get" or "none"
    \* ---- Part II, continued: the Downloader's cookie pool and its caller
    cookie_pool,    \* self.cookie_pool: None or "CookiePool"
    caller,         \* the object the caller passed to download as `request`
    \* ---- history of Part II, continued
    nprepare,       \* calls of prepare_request
    taken,          \* what each self.cookie_pool.get() of prepare_request returned
    delivered,      \* cookies of the requests the transport answered
    \* ---- Part IV: prepare_request and _download_by_httpx
    p_self,         \* the Downloader's fields prepare_request reads
    p_request,      \* prepare_request's argument `request`
    p_kwargs,       \* prepare_request's **kwargs: present keys -> values
    p_out,          \* what prepare_request returned or raised
    p_client,       \* the client _download_by_httpx sends the request on
    ppc,            \* position: "call", "prepared", "sent", "raised"
    \* ---- Part V: UserAgentPool
    ua_self_types,  \* self.types
    init_flag,      \* self.init_flag
    user_agents,    \* self.user_agents
    ua_types,       \* self.__types
    upc,            \* position of each thread inside get()
    u_k,            \* each thread's index in `for typ in self.types`
    \* ---- history of Part V (not program state)
    ninit,          \* calls of init()
    observed,       \* per thread: the self.__types its last get() used
    \* ---- Part VI: Downloader.close
    c_pools,        \* cookie_pool, referer_pool, user_agent_pool as configured
    c_k,            \* index in the list close() walks
    cpc,            \* position inside close()
    \* ---- history of Part VI (not program state)
    close_called,   \* pools whose close() was called
    session_closed, \* self.session.close() was called
    \* ---- Part VII: convert_http_protocol
    cv_original,    \* the request before any conversion
    cv_request,     \* the request after cv_n conversions
    cv_n            \* conversions applied

cpHist == <<nadd, streak, lost, got, op>>
cpVars == <<self_cookie_list, cpHist>>
dlxVars == <<cookie_pool, caller, nprepare, taken, delivered>>
prepVars == <<p_self, p_request, p_kwargs, p_out, p_client, ppc>>
uaVars == <<ua_self_types, init_flag, user_agents, ua_types, upc, u_k, ninit, observed>>
closeVars == <<c_pools, c_k, cpc, close_called, session_closed>>
cvVars == <<cv_original, cv_request, cv_n>>

\* the variables of Parts III to VII, which Part I leaves alone
extVars == <<cpVars, dlxVars, prepVars, uaVars, closeVars, cvVars>>

\* the variables download never touches
restVars == <<poolVars, cpHist, cookie_pool, prepVars, uaVars, closeVars, cvVars>>

vars == <<poolVars, dlVars, extVars>>

\* ------------------------------------------------- Part I: pure helpers

\* random.randint(-with_random, with_random), drawn only `if self.with_random`
JitterSamples(w) == IF w # 0 THEN (0 - w)..w ELSE {0}

\* _limit = self.limit (+ the sample)
EffectiveLimit(l, r) == l + r

\* the range query ignores _limit
QueryMax_IgnoresLimit(t, l) == t

\* the upper bound of the range query: time.time() - _limit
QueryMax(t, l) == t - l

\* redis ZRANGEBYSCORE key -inf max
zrangebyscore(z, max) == {c \in DOMAIN z : z[c] <= max}

\* redis ZADD key score member ... : insert or overwrite the score
zadd(z, info) ==
    [c \in (DOMAIN z) \cup (DOMAIN info) |->
        IF c \in DOMAIN info THEN info[c] ELSE z[c]]

\* redis ZREM key member
zrem(z, c) == [k \in (DOMAIN z) \ {c} |-> z[k]]

\* add() ignores delay
AddInfo_IgnoresDelay(cs, t, delay) == [k \in cs |-> t]

\* info = {k: time.time() + delay for k in cookie}
AddInfo(cs, t, delay) == [k \in cs |-> t + delay]

\* the score get() writes for the chosen cookie: {cookie: time.time()}
GetInfo(c, t) == [k \in {c} |-> t]

\* the loop runs once more than `retry`
MoreAttempts_OffByOne(k, n) == k <= n

\* `for i in range(retry)` has another iteration
MoreAttempts(k, n) == k < n

NoWrite == [kind |-> "none", t |-> 0, d |-> 0, fresh |-> FALSE]
Never == 0 - 1

\* ------------------------------------------------- Part II: values

\* attempts made by the retry policy wrapped around _download
MaxTries == 2

\* Python strings, as sequences of characters
s_http == <<"h", "t", "t", "p">>
s_https == <<"h", "t", "t", "p", "s">>
s_http_colon == <<"h", "t", "t", "p", ":">>
URL_http == <<"h", "t", "t", "p", ":", "/", "/", "a">>
URL_https == <<"h", "t", "t", "p", "s", ":", "/", "/", "a">>
URL_ftp == <<"f", "t", "p", ":", "/", "/", "a">>
Urls == {URL_http, URL_https, URL_ftp}

\* str.startswith(prefix)
startswith(str, prefix) ==
    Len(str) >= Len(prefix) /\ SubSeq(str, 1, Len(prefix)) = prefix

\* the slice begins one character early: str[k-1:]
slice_from_OneEarly(str, k) == SubSeq(str, k, Len(str))

\* str[k:]
slice_from(str, k) == SubSeq(str, k + 1, Len(str))

\* a request is a bare URL string or a dict, which may lack the key "url"
StrRequest(u) == [kind |-> "str", value |-> u]
DictRequest(d) == [kind |-> "dict", value |-> d]
Requests ==
    {StrRequest(u) : u \in Urls}
        \cup {DictRequest([url |-> u, method |-> "GET"]) : u \in Urls}
        \cup {DictRequest([method |-> "GET"])}

NoException == [kind |-> "None", run |-> 0, try |-> 0]
Exc(kind, run, try) == [kind |-> kind, run |-> run, try |-> try]

\* a response object; graper_exception is "unset" until download attaches it
NoResponse == [kind |-> "None", ok |-> FALSE,
               graper_exception |-> [kind |-> "unset", run |-> 0, try |-> 0]]
Response(ok) == [kind |-> "Response", ok |-> ok,
                 graper_exception |-> [kind |-> "unset", run |-> 0, try |-> 0]]

\* "https" is cut off one character short: url[4:] in place of url[5:]
FlipScheme_ShortSlice(url) ==
    IF startswith(url, s_https) THEN s_http \o slice_from(url, 4)
    ELSE IF startswith(url, s_http_colon) THEN s_https \o slice_from(url, 4)
    ELSE url

\* the body of convert_http_protocol between the two isinstance tests
FlipScheme(url) ==
    IF startswith(url, s_https) THEN s_http \o slice_from(url, 5)
    ELSE IF startswith(url, s_http_colon) THEN s_https \o slice_from(url, 4)
    ELSE url

\* Downloader.convert_http_protocol(request): the request it returns, or the
\* AttributeError of None.startswith when a dict has no "url"
convert_http_protocol(req) ==
    IF req.kind = "dict"
    THEN IF "url" \notin DOMAIN req.value
         THEN [raised |-> TRUE, request |-> req]
         ELSE [raised |-> FALSE,
               request |-> DictRequest([req.value EXCEPT !.url = FlipScheme(@)])]
    ELSE [raised |-> FALSE, request |-> StrRequest(FlipScheme(req.value))]

\* what self.proxy_pool.get() may return
ProxyPoolGet(pool) ==
    CASE pool = "empty" -> {None}
      [] pool = "full" -> {"proxy"}
      [] OTHER -> {None, "proxy"}

\* the empty result of the proxy pool is not checked
NoValidProxy_Unchecked(enable, given, proxies) == FALSE

\* prepare_request raises Exception("no valid proxy")
NoValidProxy(enable, given, proxies) == ~given /\ enable /\ proxies = None

\* the retry policy runs _download again after an exception
RetryAgain(k) == k < MaxTries

\* the exception is attached only when the loop ended by an exception
AttachException_OnlyOnFailure(resp, exc) == resp

\* response.graper_exception = exception
AttachException(resp, exc) == [resp EXCEPT !.graper_exception = exc]

\* the log call of the second `except` pass
ExceptionLog(verbose) == IF verbose THEN "logger.exception" ELSE "logger.error"

\* ------------------------------------------------- Part III: values

\* the capacity of the deque, standing for deque(maxlen=10000)
MaxLen == 3
\* calls of add() in a run
MaxAdds == 6

\* r = None
NoCookie == 0

\* a full deque refuses the new element
deque_append_DropsNewest(q, x) == IF Len(q) >= MaxLen THEN q ELSE Append(q, x)

\* deque.append(x) on a deque with maxlen: a full deque discards its leftmost
\* element
deque_append(q, x) ==
    IF Len(q) >= MaxLen THEN Append(Tail(q), x) ELSE Append(q, x)

\* the leftmost element is removed: deque.popleft()
deque_pop_Left(q) ==
    IF q = <<>> THEN [r |-> NoCookie, q |-> q] ELSE [r |-> Head(q), q |-> Tail(q)]

\* the rightmost element is returned and stays: q[-1]
deque_pop_Peek(q) ==
    IF q = <<>> THEN [r |-> NoCookie, q |-> q] ELSE [r |-> q[Len(q)], q |-> q]

\* CookiePool.get: try: r = self.cookie_list.pop() / except Exception: r = None.
\* r is what get returns and q the deque it leaves
deque_pop(q) ==
    IF q = <<>>
    THEN [r |-> NoCookie, q |-> q]
    ELSE [r |-> q[Len(q)], q |-> SubSeq(q, 1, Len(q) - 1)]

\* ------------------------------------------------- idle states of the parts

\* no LimitRedisCookiePool activity
PoolIdle ==
    /\ now = 0 /\ limit = 0 /\ with_random = 0 /\ zset = <<>>
    /\ pc = [p \in Procs |-> "idle"]
    /\ retry = [p \in Procs |-> 0]
    /\ i = [p \in Procs |-> 0]
    /\ _limit = [p \in Procs |-> 0]
    /\ cookie = [p \in Procs |-> None]
    /\ slept = [p \in Procs |-> FALSE]
    /\ selT = [p \in Procs |-> 0]
    /\ nq = [p \in Procs |-> 0]
    /\ ns = [p \in Procs |-> 0]
    /\ nw = [p \in Procs |-> 0]
    /\ lastSel = [c \in Cookies |-> Never]
    /\ lastW = [c \in Cookies |-> NoWrite]
    /\ deleted = [c \in Cookies |-> FALSE]
    /\ track = "none"

\* an empty CookiePool
CPIdle ==
    /\ self_cookie_list = <<>>
    /\ nadd = 0
    /\ streak = 0
    /\ lost = {}
    /\ got = NoCookie
    /\ op = "none"

\* a Downloader without a cookie pool, not yet called
DLXIdle ==
    /\ cookie_pool = None
    /\ caller = StrRequest(URL_http)
    /\ nprepare = 0
    /\ taken = <<>>
    /\ delivered = {}

\* prepare_request is not called
PrepIdle ==
    /\ p_self = <<>>
    /\ p_request = StrRequest(URL_http)
    /\ p_kwargs = <<>>
    /\ p_out = [kind |-> "none"]
    /\ p_client = None
    /\ ppc = "idle"

\* a UserAgentPool nobody calls
UAIdle ==
    /\ ua_self_types = <<>>
    /\ init_flag = 0
    /\ user_agents = <<>>
    /\ ua_types = <<>>
    /\ upc = [t \in Procs |-> "idle"]
    /\ u_k = [t \in Procs |-> 0]
    /\ ninit = 0
    /\ observed = [t \in Procs |-> <<>>]

\* close() is not called
CloseIdle ==
    /\ c_pools = <<>>
    /\ c_k = 0
    /\ cpc = "idle"
    /\ close_called = {}
    /\ session_closed = FALSE

\* convert_http_protocol is not called
CVIdle ==
    /\ cv_original = StrRequest(URL_http)
    /\ cv_request = StrRequest(URL_http)
    /\ cv_n = 0

ExtIdle == CPIdle /\ DLXIdle /\ PrepIdle /\ UAIdle /\ CloseIdle /\ CVIdle

\* convert_http_protocol returns a changed copy and leaves its argument alone
CallerAfterConvert_Copies(obj, req, converted) == obj

\* the caller's object after request = self.convert_http_protocol(request):
\* request["url"] = url has changed the caller's dict itself, while
\* request = url has only rebound the local name to a new string
CallerAfterConvert(obj, req, converted) ==
    IF req.kind = "dict" THEN converted ELSE obj

\* the pool cookie the current attempt carries, if any
AttemptCookie(pool, got_so_far) ==
    IF pool # None /\ got_so_far # <<>> /\ got_so_far[Len(got_so_far)] # NoCookie
    THEN {got_so_far[Len(got_so_far)]}
    ELSE {}

\* no download in progress
DLIdle ==
    /\ proxy_enable = FALSE
    /\ show_fail_log = FALSE
    /\ show_error_log = FALSE
    /\ proxy_pool = "empty"
    /\ proxies_given = FALSE
    /\ dpc = "idle"
    /\ request = StrRequest(URL_http)
    /\ dl_i = 0
    /\ response = NoResponse
    /\ exception = NoException
    /\ is_converted = FALSE
    /\ e = NoException
    /\ tries = 1
    /\ runs = <<>>
    /\ outs = <<>>
    /\ nflips = 0
    /\ ntransport = 0
    /\ logs = <<>>

\* ------------------------------------------------- Part I: initial state

InitPool ==
    /\ now = 0
    /\ limit \in 0..MaxLimit
    /\ with_random \in 0..MaxJitter
    /\ zset = <<>>
    /\ pc = [p \in Procs |-> "idle"]
    /\ retry = [p \in Procs |-> 0]
    /\ i = [p \in Procs |-> 0]
    /\ _limit = [p \in Procs |-> 0]
    /\ cookie = [p \in Procs |-> None]
    /\ slept = [p \in Procs |-> FALSE]
    /\ selT = [p \in Procs |-> 0]
    /\ nq = [p \in Procs |-> 0]
    /\ ns = [p \in Procs |-> 0]
    /\ nw = [p \in Procs |-> 0]
    /\ lastSel = [c \in Cookies |-> Never]
    /\ lastW = [c \in Cookies |-> NoWrite]
    /\ deleted = [c \in Cookies |-> FALSE]
    /\ ExtIdle

\* consumers whose get() calls do not overlap; lastW is recorded
InitSeq == InitPool /\ track = "write" /\ DLIdle

\* the same, and lastW also records whether add() found the cookie absent
InitSeqFresh == InitPool /\ track = "fresh" /\ DLIdle

\* consumers whose get() calls overlap, in a pool without jitter and with a
\* positive limit; lastSel and deleted are recorded
InitRace == InitPool /\ track = "race" /\ with_random = 0 /\ limit > 0 /\ DLIdle

\* ------------------------------------------------- Part I: actions

\* the wall clock advances by a second; every sleeper's second has passed
Tick ==
    /\ now < MaxTime
    /\ now' = now + 1
    /\ slept' = [p \in Procs |-> slept[p] \/ pc[p] = "sleep"]
    /\ UNCHANGED <<extVars, dlVars, track, limit, with_random, zset, pc, retry, i, _limit, cookie,
                   selT, nq, ns, nw, lastSel, lastW, deleted>>

\* LimitRedisCookiePool.add(cookie, delay)
Add(cs, d) ==
    /\ zset' = zadd(zset, AddInfo(cs, now, d))
    /\ lastW' = [c \in Cookies |->
                    IF track \in {"write", "fresh"} /\ c \in cs
                    THEN [kind |-> "add", t |-> now, d |-> d,
                          fresh |-> track = "fresh" /\ c \notin DOMAIN zset]
                    ELSE lastW[c]]
    /\ deleted' = [c \in Cookies |-> IF c \in cs THEN FALSE ELSE deleted[c]]
    /\ UNCHANGED <<extVars, dlVars, track, now, limit, with_random, pc, retry, i, _limit, cookie, slept,
                   selT, nq, ns, nw, lastSel>>

\* LimitRedisCookiePool.delete(cookie)
Delete(c) ==
    /\ zset' = zrem(zset, c)
    /\ deleted' = [deleted EXCEPT ![c] = (track = "race")]
    /\ lastW' = [lastW EXCEPT ![c] = NoWrite]
    /\ UNCHANGED <<extVars, dlVars, track, now, limit, with_random, pc, retry, i, _limit, cookie, slept,
                   selT, nq, ns, nw, lastSel>>

\* get(retry=n): cookie = None; _limit = self.limit (+ randint)
GetStart(p, n, r) ==
    /\ pc[p] = "idle"
    /\ pc' = [pc EXCEPT ![p] = "attempt"]
    /\ retry' = [retry EXCEPT ![p] = n]
    /\ _limit' = [_limit EXCEPT ![p] = EffectiveLimit(limit, r)]
    /\ UNCHANGED <<extVars, dlVars, track, now, limit, with_random, zset, i, cookie, slept,
                   selT, nq, ns, nw, lastSel, lastW, deleted>>

\* one loop iteration up to the branch: the range query, and on a non-empty
\* result random.choice(cookie_list)
GetQuery(p) ==
    /\ pc[p] = "attempt"
    /\ MoreAttempts(i[p], retry[p])
    /\ nq' = [nq EXCEPT ![p] = @ + 1]
    /\ LET cookie_list == zrangebyscore(zset, QueryMax(now, _limit[p]))
       IN  IF cookie_list = {}
           THEN /\ pc' = [pc EXCEPT ![p] = "sleep"]
                /\ UNCHANGED <<cookie, selT>>
           ELSE /\ \E c \in cookie_list : cookie' = [cookie EXCEPT ![p] = c]
                /\ selT' = [selT EXCEPT ![p] = IF track = "race" THEN now ELSE 0]
                /\ pc' = [pc EXCEPT ![p] = "zadd"]
    /\ UNCHANGED <<extVars, dlVars, track, now, limit, with_random, zset, retry, i, _limit, slept,
                   ns, nw, lastSel, lastW, deleted>>

\* time.sleep(1) returns; continue
GetSleep(p) ==
    /\ pc[p] = "sleep"
    /\ slept[p]
    /\ slept' = [slept EXCEPT ![p] = FALSE]
    /\ ns' = [ns EXCEPT ![p] = @ + 1]
    /\ i' = [i EXCEPT ![p] = @ + 1]
    /\ pc' = [pc EXCEPT ![p] = "attempt"]
    /\ UNCHANGED <<extVars, dlVars, track, now, limit, with_random, zset, retry, _limit, cookie,
                   selT, nq, nw, lastSel, lastW, deleted>>

\* zadd(cookie_key, {cookie: time.time()}); break
GetZadd(p) ==
    /\ pc[p] = "zadd"
    /\ zset' = zadd(zset, GetInfo(cookie[p], now))
    /\ nw' = [nw EXCEPT ![p] = @ + 1]
    /\ lastW' = IF track \in {"write", "fresh"}
                THEN [lastW EXCEPT ![cookie[p]] = [kind |-> "get", t |-> now, d |-> 0, fresh |-> FALSE]]
                ELSE lastW
    /\ pc' = [pc EXCEPT ![p] = "ret"]
    /\ UNCHANGED <<extVars, dlVars, track, now, limit, with_random, retry, i, _limit, cookie, slept,
                   selT, nq, ns, lastSel, deleted>>

\* the loop ran out of iterations with cookie still None
GetExhausted(p) ==
    /\ pc[p] = "attempt"
    /\ ~MoreAttempts(i[p], retry[p])
    /\ pc' = [pc EXCEPT ![p] = "ret"]
    /\ UNCHANGED <<extVars, dlVars, track, now, limit, with_random, zset, retry, i, _limit, cookie, slept,
                   selT, nq, ns, nw, lastSel, lastW, deleted>>

\* return cookie: the call is over and its locals are gone
GetReturn(p) ==
    /\ pc[p] = "ret"
    /\ lastSel' = IF track = "race" /\ cookie[p] # None
                  THEN [lastSel EXCEPT ![cookie[p]] = IF selT[p] > @ THEN selT[p] ELSE @]
                  ELSE lastSel
    /\ pc' = [pc EXCEPT ![p] = "idle"]
    /\ retry' = [retry EXCEPT ![p] = 0]
    /\ i' = [i EXCEPT ![p] = 0]
    /\ _limit' = [_limit EXCEPT ![p] = 0]
    /\ cookie' = [cookie EXCEPT ![p] = None]
    /\ selT' = [selT EXCEPT ![p] = 0]
    /\ nq' = [nq EXCEPT ![p] = 0]
    /\ ns' = [ns EXCEPT ![p] = 0]
    /\ nw' = [nw EXCEPT ![p] = 0]
    /\ UNCHANGED <<extVars, dlVars, track, now, limit, with_random, zset, slept, lastW, deleted>>

\* get() called while no other get() is in progress
GetStartSeq(p, n, r) ==
    /\ \A q \in Procs : pc[q] = "idle"
    /\ GetStart(p, n, r)

NextRace ==
    \/ Tick
    \/ \E cs \in (SUBSET Cookies) \ {{}}, d \in 0..MaxDelay : Add(cs, d)
    \/ \E c \in Cookies : Delete(c)
    \/ \E p \in Procs, n \in 0..MaxRetry, r \in JitterSamples(with_random) : GetStart(p, n, r)
    \/ \E p \in Procs : GetQuery(p)
    \/ \E p \in Procs : GetSleep(p)
    \/ \E p \in Procs : GetZadd(p)
    \/ \E p \in Procs : GetExhausted(p)
    \/ \E p \in Procs : GetReturn(p)

NextSeq ==
    \/ Tick
    \/ \E cs \in (SUBSET Cookies) \ {{}}, d \in 0..MaxDelay : Add(cs, d)
    \/ \E c \in Cookies : Delete(c)
    \/ \E p \in Procs, n \in 0..MaxRetry, r \in JitterSamples(with_random) : GetStartSeq(p, n, r)
    \/ \E p \in Procs : GetQuery(p)
    \/ \E p \in Procs : GetSleep(p)
    \/ \E p \in Procs : GetZadd(p)
    \/ \E p \in Procs : GetExhausted(p)
    \/ \E p \in Procs : GetReturn(p)

\* ------------------------------------------------- Part I: claims

\* a call that has chosen its cookie: it will write the score and return it
Chosen(p) == pc[p] \in {"zadd", "ret"} /\ cookie[p] # None

\* the step of consumer p that runs one range query
QueryStep(p) == pc[p] = "attempt" /\ pc'[p] \in {"sleep", "zadd"}

\* the range query of consumer p chooses cookie c
Selects(p, c) == pc[p] = "attempt" /\ pc'[p] = "zadd" /\ cookie'[p] = c

Dist(a, b) == IF a >= b THEN a - b ELSE b - a

\* C1: with jitter 0 and limit > 0, no cookie is returned by two different
\* get() calls whose range queries ran less than `limit` seconds apart, for
\* every interleaving of the consumers' queries and writes.
C1_NoReuseWithinLimit ==
    (with_random = 0 /\ limit > 0) =>
        /\ \A p, q \in Procs :
              (p # q /\ Chosen(p) /\ Chosen(q) /\ cookie[p] = cookie[q])
                  => Dist(selT[p], selT[q]) >= limit
        /\ \A p \in Procs :
              (Chosen(p) /\ lastSel[cookie[p]] # Never)
                  => selT[p] - lastSel[cookie[p]] >= limit

\* C2: with jitter 0, a cookie whose score was last written at time s, by
\* add with delay 0 or by the get that returned it, is not chosen by a range
\* query that runs before s + limit.
C2_NotBeforeLimit ==
    [][\A p \in Procs, c \in Cookies :
          ( /\ with_random = 0
            /\ Selects(p, c)
            /\ \/ lastW[c].kind = "get"
               \/ lastW[c].kind = "add" /\ lastW[c].d = 0 )
              => now >= lastW[c].t + limit]_vars

\* a consumer has chosen, at or after s + limit, a cookie that an earlier
\* get() had re-scored at s, in a pool with a positive limit
C2_Witness ==
    \E p \in Procs :
        /\ pc[p] = "zadd"
        /\ with_random = 0 /\ limit > 0
        /\ lastW[cookie[p]].kind = "get"
        /\ now = lastW[cookie[p]].t + limit

\* C3: for limit >= 0 and jitter >= 0, a cookie inserted by add(cookie, d) at
\* time t0, and not a member before, is not chosen by a range query that
\* runs before t0 + d.
C3_NotBeforeDelay ==
    [][\A p \in Procs, c \in Cookies :
          (Selects(p, c) /\ lastW[c].kind = "add" /\ lastW[c].fresh)
              => now >= lastW[c].t + lastW[c].d]_vars

\* the set holds exactly cookie c, and its score was written by add()
SingleAdded(c) == DOMAIN zset = {c} /\ lastW[c].kind = "add"

C5_DeleteIsPermanent ==
    \A c \in Cookies : deleted[c] => c \notin DOMAIN zset

\* C6: get(retry=n) runs at most n range queries; it returns a cookie on the
\* first attempt whose query yields candidates, after exactly one re-score
\* and a sleep after each earlier, empty attempt; when all n attempts are
\* empty it returns None after n sleeps and no write; with n = 0 it returns
\* None without touching the store; and a call that is not sleeping can
\* always take its next step.
C6_GetTerminates ==
    \A p \in Procs :
        /\ nq[p] <= retry[p]
        /\ nw[p] <= 1
        /\ (pc[p] = "ret" /\ cookie[p] # None) =>
              nw[p] = 1 /\ nq[p] >= 1 /\ ns[p] = nq[p] - 1
        /\ (pc[p] = "ret" /\ cookie[p] = None) =>
              nw[p] = 0 /\ nq[p] = retry[p] /\ ns[p] = retry[p]
        /\ (pc[p] # "idle" /\ retry[p] = 0) =>
              nq[p] = 0 /\ nw[p] = 0 /\ cookie[p] = None /\ pc[p] \in {"attempt", "ret"}
        /\ pc[p] \in {"attempt", "zadd", "ret"} =>
              ENABLED (GetQuery(p) \/ GetZadd(p) \/ GetExhausted(p) \/ GetReturn(p))
        /\ (pc[p] = "sleep" /\ slept[p]) => ENABLED GetSleep(p)

\* a call with retry >= 2 is about to return None after sleeping after each
\* of its empty attempts
C6_WitnessExhausted ==
    \E p \in Procs :
        pc[p] = "ret" /\ cookie[p] = None /\ retry[p] >= 2 /\ ns[p] = retry[p]

SpecSeq == InitSeq /\ [][NextSeq]_vars
SpecSeqFresh == InitSeqFresh /\ [][NextSeq]_vars
SpecRace == InitRace /\ [][NextRace]_vars

\* ------------------------------------------------- Part II: Downloader.download

\* a Downloader as constructed, before download is called; no pool activity
InitDL ==
    /\ now = 0 /\ limit = 0 /\ with_random = 0 /\ zset = <<>>
    /\ pc = [p \in Procs |-> "idle"]
    /\ retry = [p \in Procs |-> 0]
    /\ i = [p \in Procs |-> 0]
    /\ _limit = [p \in Procs |-> 0]
    /\ cookie = [p \in Procs |-> None]
    /\ slept = [p \in Procs |-> FALSE]
    /\ selT = [p \in Procs |-> 0]
    /\ nq = [p \in Procs |-> 0]
    /\ ns = [p \in Procs |-> 0]
    /\ nw = [p \in Procs |-> 0]
    /\ lastSel = [c \in Cookies |-> Never]
    /\ lastW = [c \in Cookies |-> NoWrite]
    /\ deleted = [c \in Cookies |-> FALSE]
    /\ track = "none"
    /\ proxy_enable \in BOOLEAN
    /\ show_fail_log \in BOOLEAN
    /\ show_error_log \in BOOLEAN
    /\ proxy_pool \in {"empty", "full", "flaky"}
    /\ proxies_given = FALSE
    /\ dpc = "idle"
    /\ request = StrRequest(URL_http)
    /\ dl_i = 0
    /\ response = NoResponse
    /\ exception = NoException
    /\ is_converted = FALSE
    /\ e = NoException
    /\ tries = 1
    /\ runs = <<>>
    /\ outs = <<>>
    /\ nflips = 0
    /\ ntransport = 0
    /\ logs = <<>>
    /\ cookie_pool \in {None, "CookiePool"}
    /\ \E k \in 0..MaxLen :
          /\ cookie_pool = None => k = 0
          /\ self_cookie_list = [j \in 1..k |-> j]
          /\ nadd = k
          /\ streak = k
    /\ lost = {}
    /\ got = NoCookie
    /\ op = "none"
    /\ caller = StrRequest(URL_http)
    /\ nprepare = 0
    /\ taken = <<>>
    /\ delivered = {}
    /\ PrepIdle /\ UAIdle /\ CloseIdle /\ CVIdle

\* download(request, **kwargs) is called: response = None; exception = None;
\* is_converted = False; the loop enters its first pass
Download(req, given) ==
    /\ dpc = "idle"
    /\ request' = req
    /\ proxies_given' = given
    /\ dl_i' = 0
    /\ response' = NoResponse
    /\ exception' = NoException
    /\ is_converted' = FALSE
    /\ tries' = 1
    /\ runs' = <<req>>
    /\ caller' = req
    /\ dpc' = "prepare"
    /\ UNCHANGED <<restVars, proxy_enable, show_fail_log, show_error_log, proxy_pool,
                   e, outs, nflips, ntransport, logs,
                   self_cookie_list, nprepare, taken, delivered>>

\* an exception leaves the body of _download: the retry policy runs the body
\* again, or lets the exception reach download's `except`
RaiseInDownload(exc) ==
    IF RetryAgain(tries)
    THEN /\ tries' = tries + 1
         /\ dpc' = "prepare"
         /\ UNCHANGED <<e, outs>>
    ELSE /\ tries' = 1
         /\ e' = exc
         /\ outs' = Append(outs, exc)
         /\ dpc' = "except"

\* prepare_request, as far as download depends on it: a cookie is popped from
\* the cookie pool `if self.cookie_pool is not None`, and then the proxy is
\* fetched from the pool unless `proxies` was passed or proxying is disabled
PrepareRequest ==
    /\ dpc = "prepare"
    /\ nprepare' = nprepare + 1
    /\ IF cookie_pool # None
       THEN /\ self_cookie_list' = deque_pop(self_cookie_list).q
            /\ taken' = Append(taken, deque_pop(self_cookie_list).r)
       ELSE UNCHANGED <<self_cookie_list, taken>>
    /\ \E proxies \in IF ~proxies_given /\ proxy_enable
                      THEN ProxyPoolGet(proxy_pool) ELSE {"given"} :
          IF NoValidProxy(proxy_enable, proxies_given, proxies)
          THEN RaiseInDownload(Exc("no valid proxy", dl_i + 1, tries))
          ELSE /\ dpc' = "transport"
               /\ UNCHANGED <<e, outs, tries>>
    /\ UNCHANGED <<restVars, proxy_enable, show_fail_log, show_error_log, proxy_pool,
                   proxies_given, request, dl_i, response, exception, is_converted,
                   runs, nflips, ntransport, logs, caller, delivered>>

\* _download_by_httpx hands the request to the transport, which raises
DownloadByHttpxRaises ==
    /\ dpc = "transport"
    /\ ntransport' = ntransport + 1
    /\ RaiseInDownload(Exc("transport", dl_i + 1, tries))
    /\ UNCHANGED <<restVars, proxy_enable, show_fail_log, show_error_log, proxy_pool,
                   proxies_given, request, dl_i, response, exception, is_converted,
                   runs, nflips, logs, self_cookie_list, caller, nprepare, taken, delivered>>

\* _download_by_httpx returns a response, truthy or falsy; _download returns
\* it; download logs a falsy one when show_fail_log is set, and breaks
DownloadByHttpxReturns(ok) ==
    /\ dpc = "transport"
    /\ ntransport' = ntransport + 1
    /\ response' = Response(ok)
    /\ outs' = Append(outs, NoException)
    /\ logs' = IF ~ok /\ show_fail_log THEN Append(logs, "download failed") ELSE logs
    /\ tries' = 1
    /\ delivered' = delivered \cup AttemptCookie(cookie_pool, taken)
    /\ dpc' = "finish"
    /\ UNCHANGED <<restVars, proxy_enable, show_fail_log, show_error_log, proxy_pool,
                   proxies_given, request, dl_i, exception, is_converted, e,
                   runs, nflips, self_cookie_list, caller, nprepare, taken>>

\* the loop of download moves on after an `except` pass
NextPass(req) ==
    /\ dl_i' = dl_i + 1
    /\ IF dl_i + 1 < 2
       THEN dpc' = "prepare" /\ runs' = Append(runs, req)
       ELSE dpc' = "finish" /\ UNCHANGED runs

\* except Exception as e, first time: remember e and flip the scheme; an
\* exception raised by convert_http_protocol leaves download
ExceptFirst ==
    /\ dpc = "except"
    /\ ~is_converted
    /\ exception' = e
    /\ nflips' = nflips + 1
    /\ LET r == convert_http_protocol(request)
       IN  IF r.raised
           THEN /\ dpc' = "escaped"
                /\ UNCHANGED <<request, is_converted, dl_i, runs, caller>>
           ELSE /\ request' = r.request
                /\ caller' = CallerAfterConvert(caller, request, r.request)
                /\ is_converted' = TRUE
                /\ NextPass(r.request)
    /\ UNCHANGED <<restVars, proxy_enable, show_fail_log, show_error_log, proxy_pool,
                   proxies_given, response, e, tries, outs, ntransport, logs,
                   self_cookie_list, nprepare, taken, delivered>>

\* except Exception as e, once converted: log the remembered exception
ExceptAgain ==
    /\ dpc = "except"
    /\ is_converted
    /\ logs' = Append(logs, ExceptionLog(show_error_log))
    /\ NextPass(request)
    /\ UNCHANGED <<restVars, proxy_enable, show_fail_log, show_error_log, proxy_pool,
                   proxies_given, request, response, exception, is_converted, e, tries,
                   outs, nflips, ntransport, self_cookie_list, caller, nprepare, taken, delivered>>

\* after the loop: attach the exception to a response, and return
Return ==
    /\ dpc = "finish"
    /\ response' = IF response.kind # "None"
                   THEN AttachException(response, exception) ELSE response
    /\ dpc' = "done"
    /\ UNCHANGED <<restVars, proxy_enable, show_fail_log, show_error_log, proxy_pool,
                   proxies_given, request, dl_i, exception, is_converted, e, tries,
                   runs, outs, nflips, ntransport, logs,
                   self_cookie_list, caller, nprepare, taken, delivered>>

NextDL ==
    \/ \E req \in Requests, given \in BOOLEAN : Download(req, given)
    \/ PrepareRequest
    \/ DownloadByHttpxRaises
    \/ \E ok \in BOOLEAN : DownloadByHttpxReturns(ok)
    \/ ExceptFirst
    \/ ExceptAgain
    \/ Return

SpecDL == InitDL /\ [][NextDL]_vars

\* ------------------------------------------------- Part II: claims

\* the URL a request carries (requests that carry one)
UrlOf(req) == IF req.kind = "dict" THEN req.value.url ELSE req.value

\* the http <-> https exchange, written out on the URLs of the model
FlipUrl(u) ==
    IF u = URL_http THEN URL_https
    ELSE IF u = URL_https THEN URL_http
    ELSE u

\* request b is request a with only its URL changed, to FlipUrl of it
FlippedFrom(a, b) ==
    b = IF a.kind = "dict"
        THEN DictRequest([a.value EXCEPT !.url = FlipUrl(@)])
        ELSE StrRequest(FlipUrl(a.value))

\* C7: download never lets an exception escape to the caller, for every
\* request (bare URL string or structured record) and every failure raised
\* during preparation or transport on either attempt.
C7_NeverRaises == dpc # "escaped"

\* what C8 says apart from the URL of the second run: _download runs at most
\* twice, a second time only if the first run raised; the scheme is flipped
\* at most once; a first run that returns ends the loop with no flip
C8_Loop ==
    /\ Len(runs) <= 2
    /\ nflips <= 1
    /\ Len(runs) = 2 => (outs[1] # NoException /\ nflips = 1)
    /\ (Len(outs) >= 1 /\ outs[1] = NoException) => (Len(runs) = 1 /\ nflips = 0)

\* C8: download runs _download at most twice, the second time only if the
\* first raised and then with the URL scheme flipped (http <-> https)
\* relative to the first; the scheme is flipped at most once per call; a
\* first run that returns ends the loop with no flip and no second run.
C8_SecondRunFlipped ==
    /\ C8_Loop
    /\ Len(runs) = 2 =>
          /\ UrlOf(runs[1]) \in {URL_http, URL_https}
          /\ UrlOf(runs[2]) # UrlOf(runs[1])
          /\ FlippedFrom(runs[1], runs[2])

\* C8 amended: as C8, but the second run is given the request
\* convert_http_protocol returns: the scheme exchanged when the URL begins
\* with "https" or "http:", and the same URL otherwise.
C8_SecondRunConverted ==
    /\ C8_Loop
    /\ Len(runs) = 2 => FlippedFrom(runs[1], runs[2])

\* a structured request with an https URL was run a second time, and the
\* download is over
C8_Witness ==
    /\ dpc = "done"
    /\ Len(runs) = 2
    /\ runs[1] = DictRequest([url |-> URL_https, method |-> "GET"])

\* the case of C9: proxying enabled, no `proxies` passed, a proxy pool that
\* yields None, and download("http://...") called
C9_Case ==
    /\ dpc # "idle"
    /\ proxy_enable /\ ~proxies_given /\ proxy_pool = "empty"
    /\ runs[1] = StrRequest(URL_http)

\* C9: in that case download returns None and no exception escapes, after
\* exactly two failed runs, the first with the original and the second with
\* the flipped scheme; it writes exactly one failure log record, chosen by
\* the verbosity flag; and no request is handed to the transport.
C9_NoProxyFailsTwice ==
    C9_Case =>
        /\ ntransport = 0
        /\ dpc # "escaped"
        /\ \A k \in 1..Len(logs) : logs[k] # "download failed"
        /\ dpc = "done" =>
              /\ response = NoResponse
              /\ runs = <<StrRequest(URL_http), StrRequest(URL_https)>>
              /\ Len(outs) = 2
              /\ outs[1].kind = "no valid proxy" /\ outs[2].kind = "no valid proxy"
              /\ logs = <<IF show_error_log THEN "logger.exception" ELSE "logger.error">>

\* such a download has returned
C9_Witness == C9_Case /\ dpc = "done"

\* C10: on a response returned by download, graper_exception is set; it is
\* not None exactly when the first run of _download raised before the run
\* that returned the response, and it is then the exception that run raised.
C10_AttachedException ==
    (dpc = "done" /\ response.kind = "Response") =>
        /\ response.graper_exception.kind # "unset"
        /\ (response.graper_exception # NoException) <=> (outs[1] # NoException)
        /\ response.graper_exception = outs[1]

\* a response is returned by the second run after the transport failed the
\* first
C10_Witness ==
    /\ dpc = "done"
    /\ response.kind = "Response"
    /\ Len(outs) = 2
    /\ outs[1].kind = "transport"
    /\ response.graper_exception = outs[1]

\* ------------------------------------------------- Part III: CookiePool

\* CookiePool.__init__: an empty deque
InitCP == PoolIdle /\ DLIdle /\ CPIdle /\ DLXIdle /\ PrepIdle /\ UAIdle /\ CloseIdle /\ CVIdle

\* CookiePool.add(cookies): self.cookie_list.append(cookies); the cookie added
\* is numbered by its call
CookiePoolAdd ==
    /\ nadd < MaxAdds
    /\ nadd' = nadd + 1
    /\ self_cookie_list' = deque_append(self_cookie_list, nadd + 1)
    /\ streak' = streak + 1
    /\ lost' = IF streak + 1 > MaxLen THEN lost \cup {nadd + 1 - MaxLen} ELSE lost
    /\ op' = "add"
    /\ UNCHANGED <<got, poolVars, dlVars, dlxVars, prepVars, uaVars, closeVars, cvVars>>

\* CookiePool.get()
CookiePoolGet ==
    /\ self_cookie_list' = deque_pop(self_cookie_list).q
    /\ got' = deque_pop(self_cookie_list).r
    /\ streak' = 0
    /\ op' = "get"
    /\ UNCHANGED <<nadd, lost, poolVars, dlVars, dlxVars, prepVars, uaVars, closeVars, cvVars>>

NextCP == CookiePoolAdd \/ CookiePoolGet

SpecCP == InitCP /\ [][NextCP]_vars

\* ------------------------------------------------- Part III: claims

\* CookiePool.__len__
CookiePoolLen(q) == Len(q)

\* the cookies in the deque
Held(q) == {q[k] : k \in 1..Len(q)}

\* C11: the pool never holds more than its capacity; add() on a full buffer
\* evicts the oldest element; and a cookie that was followed by N further
\* consecutive insertions (N the capacity) is in the buffer no more and is
\* returned by no later get().
C11_BoundedEviction ==
    [][/\ CookiePoolLen(self_cookie_list') <= MaxLen
       /\ (nadd' # nadd /\ CookiePoolLen(self_cookie_list) = MaxLen) =>
             /\ self_cookie_list' = Append(Tail(self_cookie_list), nadd')
             /\ Head(self_cookie_list) \notin Held(self_cookie_list')
       /\ Held(self_cookie_list') \cap lost' = {}
       /\ op' = "get" => got' \notin lost'
      ]_vars

\* after a cookie was evicted the pool was drained, and the last get() found it
\* empty
C11_Witness ==
    /\ lost # {}
    /\ op = "get"
    /\ got = NoCookie
    /\ nadd = MaxAdds

\* C12: get() removes and returns the most recently added element still in
\* the buffer; on an empty buffer it returns None and leaves the buffer as it
\* is; len() goes down by one on every get() that returns a cookie and up by
\* one on every add() below capacity.
C12_LIFO ==
    [][/\ (op' = "get" /\ nadd' = nadd /\ self_cookie_list # <<>>) =>
             /\ got' \in Held(self_cookie_list)
             /\ \A x \in Held(self_cookie_list) : x <= got'
             /\ Held(self_cookie_list') = Held(self_cookie_list) \ {got'}
             /\ CookiePoolLen(self_cookie_list') = CookiePoolLen(self_cookie_list) - 1
       /\ (op' = "get" /\ nadd' = nadd /\ self_cookie_list = <<>>) =>
             /\ got' = NoCookie
             /\ self_cookie_list' = self_cookie_list
       /\ (nadd' # nadd /\ CookiePoolLen(self_cookie_list) < MaxLen) =>
             /\ CookiePoolLen(self_cookie_list') = CookiePoolLen(self_cookie_list) + 1
             /\ Held(self_cookie_list') = Held(self_cookie_list) \cup {nadd'}
      ]_vars

\* get() returned a cookie that was not the last one added, and left an older
\* one behind
C12_Witness ==
    /\ op = "get"
    /\ got # NoCookie
    /\ got < nadd
    /\ self_cookie_list # <<>>

\* ------------------------------------------------- Part IV: values

\* a Python dict: a function on the keys present
EmptyDict == <<>>

\* d.get(k, default)
dict_get(d, k, default) == IF k \in DOMAIN d THEN d[k] ELSE default

\* a.update(b): a with the entries of b added, b's values taking over
dict_update(a, b) == b @@ a

\* d[k] = v
dict_set(d, k, v) == (k :> v) @@ d

\* d.pop(k, ...) for each k of ks, as far as d is concerned
dict_without(d, ks) == [k \in (DOMAIN d) \ ks |-> d[k]]

\* the characters of a string
Chars(str) == {str[k] : k \in 1..Len(str)}

\* str.find(c) + 1 for a character c that occurs
IndexOf(str, c) == CHOOSE k \in 1..Len(str) : str[k] = c /\ \A j \in 1..(k - 1) : str[j] # c

\* str.split(sep) for a one-character sep
RECURSIVE split(_, _)
split(str, sep) ==
    IF sep \notin Chars(str)
    THEN <<str>>
    ELSE <<SubSeq(str, 1, IndexOf(str, sep) - 1)>>
             \o split(SubSeq(str, IndexOf(str, sep) + 1, Len(str)), sep)

\* str.split(sep, maxsplit=1)
split_maxsplit1(str, sep) ==
    IF sep \notin Chars(str)
    THEN <<str>>
    ELSE <<SubSeq(str, 1, IndexOf(str, sep) - 1),
           SubSeq(str, IndexOf(str, sep) + 1, Len(str))>>

\* x.strip() is a non-empty string
strip_truthy(str) == \E k \in 1..Len(str) : str[k] # " "

\* [f(x) for x in xs if keep(x)] with f = split("=", maxsplit=1) and
\* keep = strip()
RECURSIVE cookie_pairs(_)
cookie_pairs(segments) ==
    IF segments = <<>>
    THEN <<>>
    ELSE (IF strip_truthy(Head(segments))
          THEN <<split_maxsplit1(Head(segments), "=")>>
          ELSE <<>>) \o cookie_pairs(Tail(segments))

\* dict(pairs): later pairs take over earlier ones
RECURSIVE dict_of_pairs(_)
dict_of_pairs(pairs) ==
    IF pairs = <<>>
    THEN EmptyDict
    ELSE LET last == pairs[Len(pairs)]
         IN  dict_set(dict_of_pairs(SubSeq(pairs, 1, Len(pairs) - 1)), last[1], last[2])

\* dict(pairs) raises ValueError on an element that is not a pair
dict_raises(pairs) == \E k \in 1..Len(pairs) : Len(pairs[k]) # 2

\* cookie strings and cookie mappings of the model
Cookie_a_h == <<"a", "=", "h">>
Cookie_b_s == <<"b", "=", "s">>
Cookie_b_q == <<"b", "=", "q">>
Cookies_a_x == (<<"a">> :> <<"x">>)
Cookies_c_p == (<<"c">> :> <<"p">>)

\* a session is an httpx.Client with its headers; None is no session
NoSession == [kind |-> "None"]
Client(id, headers) == [kind |-> "Client", id |-> id, headers |-> headers]

\* what self.cookie_pool.get() yields in prepare_request: there is no pool, or
\* the pool is empty, or it yields a mapping or a string
CookieNexts ==
    {[kind |-> "nopool"], [kind |-> "None"],
     [kind |-> "dict", value |-> Cookies_c_p],
     [kind |-> "str", value |-> Cookie_b_q]}

\* the Downloader's fields: self.cookie_pool (by what its get() yields),
\* self.session, self.use_session, self.proxy_enable, and what
\* self.proxy_pool.get() yields; format_headers=False and no custom headers
PrepSelves ==
    {s \in [cookie_next : CookieNexts,
            session : {Client("self.session", EmptyDict),
                       Client("self.session", [Cookie |-> Cookie_b_s])},
            use_session : BOOLEAN,
            proxy_enable : BOOLEAN,
            pool_proxy : {None, "proxy"}] :
        s.proxy_enable \/ s.pool_proxy = None}

\* the requests prepare_request is given
PrepRequests ==
    {StrRequest(URL_http),
     DictRequest([url |-> URL_https, method |-> "GET"]),
     DictRequest([url |-> URL_http, method |-> "PUT"]),
     DictRequest([url |-> URL_http, data |-> "d"])}

\* the keyword arguments a caller may pass, all present
KwFull ==
    [method : {"GET", "PUT"},
     data : {"d"},
     json : {"j"},
     cookies : {Cookies_a_x},
     headers : {[Cookie |-> Cookie_a_h]},
     verify : {None, "True"},
     proxies : {"given"},
     cert : {"cert"},
     session : {Client("session", EmptyDict)}]
KwKeys == {"method", "data", "json", "cookies", "headers", "verify", "proxies", "cert",
           "session"}

\* the keyword arguments a caller may pass: any of the keys present
Kwargs == {[k \in S |-> f[k]] : f \in KwFull, S \in SUBSET KwKeys}

\* the body is promoted only for `data`
PromoteMethod_DataOnly(method, kwargs) ==
    IF "data" \in DOMAIN kwargs /\ method = "GET" THEN "POST" ELSE method

\* if ("data" in kwargs or "json" in kwargs) and method == "GET": method = "POST"
PromoteMethod(method, kwargs) ==
    IF ("data" \in DOMAIN kwargs \/ "json" \in DOMAIN kwargs) /\ method = "GET"
    THEN "POST"
    ELSE method

\* the dict the Cookie headers parse to: kwargs["headers"].get("Cookie", "")
\* + ";" + session.headers.get("Cookie", ""), split on ";" and then on "="
ParseCookies(headers, session) ==
    cookie_pairs(split(dict_get(headers, "Cookie", <<>>) \o <<";">>
                           \o dict_get(session.headers, "Cookie", <<>>), ";"))

\* Downloader.prepare_request(request, **kwargs): the tuple it returns, or the
\* exception it raises
prepare_request(self, req, kwargs) ==
    LET is_dict == req.kind = "dict"
        url == IF is_dict THEN dict_get(req.value, "url", None) ELSE req.value
        kw1 == IF is_dict THEN dict_update(kwargs, req.value) ELSE kwargs
        method == dict_get(kw1, "method", "GET")
        _cookie == self.cookie_next
        _cookies == IF _cookie.kind = "dict" /\ _cookie.value # EmptyDict
                    THEN _cookie.value ELSE EmptyDict
        default_headers == IF _cookie.kind = "str" /\ _cookie.value # <<>>
                           THEN [Cookie |-> _cookie.value] ELSE EmptyDict
        headers == dict_update(default_headers, dict_get(kw1, "headers", EmptyDict))
        kw2 == dict_set(dict_without(kw1, {"headers"}), "headers", headers)
        kw3 == IF "verify" \notin DOMAIN kw2 THEN dict_set(kw2, "verify", "False") ELSE kw2
        fetch == "proxies" \notin DOMAIN kw3 /\ self.proxy_enable
        kw4 == IF fetch THEN dict_set(kw3, "proxies", self.pool_proxy) ELSE kw3
        kw5 == dict_update([stream |-> "self.stream", timeout |-> "self.timeout"], kw4)
        _session == dict_get(kw5, "session", NoSession)
        kw6 == dict_without(kw5, {"session"})
        pairs == ParseCookies(kw6.headers,
                              IF _session.kind # "None" THEN _session ELSE self.session)
        kw7 == IF "cookies" \notin DOMAIN kw6
               THEN dict_set(kw6, "cookies", dict_update(dict_of_pairs(pairs), _cookies))
               ELSE kw6
    IN  IF fetch /\ self.pool_proxy = None
        THEN [kind |-> "raised", exception |-> "no valid proxy"]
        ELSE IF "cookies" \notin DOMAIN kw6 /\ dict_raises(pairs)
             THEN [kind |-> "raised", exception |-> "ValueError"]
             ELSE [kind |-> "returned", session |-> _session,
                   method |-> PromoteMethod(method, kw7), url |-> url,
                   kwargs |-> dict_without(kw7, {"url", "method"})]

\* _download_by_httpx(method, url, session, **kwargs): the client the request
\* is sent on
ClientFor(self, session, kwargs) ==
    LET proxies == dict_get(kwargs, "proxies", None)
        verify == kwargs.verify
        cert == dict_get(kwargs, "cert", None)
    IN  IF proxies # None \/ verify # None \/ cert # None
        THEN "make_httpx_client"
        ELSE IF session.kind = "None"
             THEN (IF self.use_session THEN "self.session" ELSE "httpx")
             ELSE session.id

\* ------------------------------------------------- Part IV: actions

\* a Downloader, and a call _download(request, **kwargs) about to be made
InitPrep ==
    /\ PoolIdle /\ DLIdle /\ CPIdle /\ DLXIdle /\ UAIdle /\ CloseIdle /\ CVIdle
    /\ p_self \in PrepSelves
    /\ p_request \in PrepRequests
    /\ p_kwargs \in Kwargs
    /\ p_out = [kind |-> "none"]
    /\ p_client = None
    /\ ppc = "call"

\* _session, method, url, kwargs = self.prepare_request(request, **kwargs)
PrepCall ==
    /\ ppc = "call"
    /\ p_out' = prepare_request(p_self, p_request, p_kwargs)
    /\ ppc' = IF p_out'.kind = "raised" THEN "raised" ELSE "prepared"
    /\ UNCHANGED <<p_self, p_request, p_kwargs, p_client,
                   poolVars, dlVars, cpVars, dlxVars, uaVars, closeVars, cvVars>>

\* response = self._download_by_httpx(method, url, _session, **kwargs)
PrepTransport ==
    /\ ppc = "prepared"
    /\ p_client' = ClientFor(p_self, p_out.session, p_out.kwargs)
    /\ ppc' = "sent"
    /\ UNCHANGED <<p_self, p_request, p_kwargs, p_out,
                   poolVars, dlVars, cpVars, dlxVars, uaVars, closeVars, cvVars>>

NextPrep == PrepCall \/ PrepTransport

SpecPrep == InitPrep /\ [][NextPrep]_vars

\* ------------------------------------------------- Part IV: claims

\* the options of the call: the caller's keyword arguments, and the fields of
\* a structured request
CallOptions == (DOMAIN p_kwargs) \cup (IF p_request.kind = "dict" THEN DOMAIN p_request.value ELSE {})

\* the method the call resolves to: the structured request's, else the
\* keyword argument, else "GET"
ResolvedMethod ==
    IF p_request.kind = "dict" /\ "method" \in DOMAIN p_request.value
    THEN p_request.value.method
    ELSE IF "method" \in DOMAIN p_kwargs THEN p_kwargs.method ELSE "GET"

\* C13: when the caller supplies none of proxies, verify, cert and proxying
\* is disabled, the request is sent on the per-call session override if one
\* was given and on the Downloader's shared session otherwise; a fresh client
\* is made only when one of proxies, verify, cert was supplied at call time.
C13_SessionReuse ==
    ppc = "sent" =>
        /\ (CallOptions \cap {"proxies", "verify", "cert"} = {}
                /\ ~p_self.proxy_enable /\ p_self.use_session) =>
              p_client = IF "session" \in DOMAIN p_kwargs THEN "session" ELSE "self.session"
        /\ p_client = "make_httpx_client" =>
              (CallOptions \cap {"proxies", "verify", "cert"} # {} \/ p_self.proxy_enable)

\* C15: prepare_request returns "POST" in place of the resolved method exactly
\* when the resolved method is "GET" and the options contain `data` or
\* `json`; otherwise it returns the resolved method; `url` and `method` are
\* not among the keyword arguments it returns.
C15_MethodPromotion ==
    p_out.kind = "returned" =>
        /\ p_out.method = IF ResolvedMethod = "GET" /\ CallOptions \cap {"data", "json"} # {}
                          THEN "POST" ELSE ResolvedMethod
        /\ (p_out.method # ResolvedMethod) <=>
              (ResolvedMethod = "GET" /\ CallOptions \cap {"data", "json"} # {})
        /\ DOMAIN p_out.kwargs \cap {"url", "method"} = {}

\* a call with a bare URL, no method and `json` alone as the body was
\* promoted
C15_Witness ==
    /\ p_out.kind = "returned"
    /\ p_request.kind = "str"
    /\ "method" \notin CallOptions
    /\ CallOptions \cap {"data", "json"} = {"json"}
    /\ p_out.method = "POST"

\* the session whose Cookie header is read: the override, else the shared one
CookieSession == IF "session" \in DOMAIN p_kwargs THEN p_kwargs.session ELSE p_self.session

\* the Cookie header prepare_request builds: the caller's, else the pool's
\* string cookie
BuiltHeaders ==
    dict_update(IF p_self.cookie_next.kind = "str"
                THEN [Cookie |-> p_self.cookie_next.value] ELSE EmptyDict,
                dict_get(p_kwargs, "headers", EmptyDict))

\* C17: the cookie mapping prepare_request returns is the pairs parsed from
\* the Cookie header it built and from the session's Cookie header, overlaid
\* by the pool's mapping cookie and then by the caller's `cookies`; the
\* header-derived and pool-derived cookies are there also when the caller
\* passes `cookies`.
C17_CookieMerge ==
    p_out.kind = "returned" =>
        p_out.kwargs.cookies =
            dict_update(
                dict_update(dict_of_pairs(ParseCookies(BuiltHeaders, CookieSession)),
                            IF p_self.cookie_next.kind = "dict"
                            THEN p_self.cookie_next.value ELSE EmptyDict),
                dict_get(p_kwargs, "cookies", EmptyDict))

\* ------------------------------------------------- Part VI: Downloader.close

\* [self.cookie_pool, self.referer_pool, self.user_agent_pool]
PoolOrder == <<"cookie_pool", "referer_pool", "user_agent_pool">>

\* a pool field of the Downloader: None, or a pool object with the number of
\* cookies it holds (CookiePool only) and whether its close() raises
NoPool == [kind |-> "None", len |-> 0, close_raises |-> FALSE]
PoolObject(kind, n, r) == [kind |-> kind, len |-> n, close_raises |-> r]

\* `if pool:` -- None is false; a CookiePool is as true as its __len__ is
\* non-zero; the other pool classes define neither __len__ nor __bool__
PoolTruthy(pool) ==
    IF pool.kind = "None" THEN FALSE
    ELSE IF pool.kind = "CookiePool" THEN pool.len # 0
    ELSE TRUE

\* a Downloader with any of its three pools configured, the cookie pool empty
\* or holding a cookie
InitClose ==
    /\ PoolIdle /\ DLIdle /\ CPIdle /\ DLXIdle /\ PrepIdle /\ UAIdle /\ CVIdle
    /\ c_pools \in [cookie_pool : {NoPool} \cup {PoolObject("CookiePool", n, r) :
                                                  n \in 0..1, r \in BOOLEAN},
                    referer_pool : {NoPool} \cup {PoolObject("RefererPool", 0, r) :
                                                   r \in BOOLEAN},
                    user_agent_pool : {NoPool} \cup {PoolObject("UserAgentPool", 0, r) :
                                                      r \in BOOLEAN}]
    /\ c_k = 0
    /\ cpc = "idle"
    /\ close_called = {}
    /\ session_closed = FALSE

\* close() is called: the loop over the pools begins
CloseCall ==
    /\ cpc = "idle"
    /\ cpc' = "loop"
    /\ c_k' = 1
    /\ UNCHANGED <<c_pools, close_called, session_closed,
                   poolVars, dlVars, cpVars, dlxVars, prepVars, uaVars, cvVars>>

\* one iteration: if pool: try: pool.close() / except: pass
ClosePool ==
    /\ cpc = "loop"
    /\ close_called' = IF PoolTruthy(c_pools[PoolOrder[c_k]])
                       THEN close_called \cup {PoolOrder[c_k]}
                       ELSE close_called
    /\ IF c_k < Len(PoolOrder)
       THEN c_k' = c_k + 1 /\ UNCHANGED cpc
       ELSE cpc' = "session" /\ UNCHANGED c_k
    /\ UNCHANGED <<c_pools, session_closed,
                   poolVars, dlVars, cpVars, dlxVars, prepVars, uaVars, cvVars>>

\* self.session.close()
CloseSession ==
    /\ cpc = "session"
    /\ session_closed' = TRUE
    /\ cpc' = "done"
    /\ UNCHANGED <<c_pools, c_k, close_called,
                   poolVars, dlVars, cpVars, dlxVars, prepVars, uaVars, cvVars>>

NextClose == CloseCall \/ ClosePool \/ CloseSession

SpecClose == InitClose /\ [][NextClose]_vars

\* ------------------------------------------------- Part VI: claims

\* the pools the Downloader was configured with
Configured == {PoolOrder[k] : k \in {j \in 1..Len(PoolOrder) : c_pools[PoolOrder[j]].kind # "None"}}

\* C14: close() attempts close() on every configured pool (cookie, referer,
\* user-agent), an empty one included, and releases the shared session,
\* whichever of the pools' close() calls raise.
C14_ClosesEveryPool ==
    cpc = "done" =>
        /\ session_closed
        /\ close_called = Configured

\* ------------------------------------------------- Part VII: convert_http_protocol

\* the longest URL remainder after "://"
MaxRest == 2

s_sep == <<":", "/", "/">>

\* what follows "://" in the URLs of this part
Rests == UNION {[1..n -> {"a", "s", ":"}] : n \in 0..MaxRest}

\* URLs beginning "http://" or "https://", and one that begins with neither
ConvertUrls ==
    {scheme \o s_sep \o rest : scheme \in {s_http, s_https}, rest \in Rests} \cup {URL_ftp}

\* a request, bare or structured, before convert_http_protocol is applied
InitConvert ==
    /\ PoolIdle /\ DLIdle /\ CPIdle /\ DLXIdle /\ PrepIdle /\ UAIdle /\ CloseIdle
    /\ cv_original \in {StrRequest(u) : u \in ConvertUrls}
                           \cup {DictRequest([url |-> u, method |-> "GET"]) : u \in ConvertUrls}
    /\ cv_request = cv_original
    /\ cv_n = 0

\* request = convert_http_protocol(request), up to twice
Convert ==
    /\ cv_n < 2
    /\ ~convert_http_protocol(cv_request).raised
    /\ cv_request' = convert_http_protocol(cv_request).request
    /\ cv_n' = cv_n + 1
    /\ UNCHANGED <<cv_original, poolVars, dlVars, cpVars, dlxVars, prepVars, uaVars, closeVars>>

NextConvert == Convert

SpecConvert == InitConvert /\ [][NextConvert]_vars

\* ------------------------------------------------- Part VII: claims

\* the URL with the other of the two schemes "http://" and "https://"
OtherScheme(u) ==
    IF startswith(u, s_https \o s_sep)
    THEN s_http \o s_sep \o SubSeq(u, Len(s_https \o s_sep) + 1, Len(u))
    ELSE s_https \o s_sep \o SubSeq(u, Len(s_http \o s_sep) + 1, Len(u))

\* C16: convert_http_protocol maps a URL beginning "https://" to the same URL
\* beginning "http://" and the reverse, so that applying it twice to a request
\* with an http or https URL gives the original request back; of a
\* structured request it changes the `url` field only.
C16_RoundTrip ==
    (startswith(UrlOf(cv_original), s_http \o s_sep)
            \/ startswith(UrlOf(cv_original), s_https \o s_sep)) =>
        /\ cv_n = 1 =>
              /\ UrlOf(cv_request) = OtherScheme(UrlOf(cv_original))
              /\ UrlOf(cv_request) # UrlOf(cv_original)
              /\ cv_request.kind = cv_original.kind
              /\ cv_request.kind = "dict" =>
                    cv_request.value = [cv_original.value EXCEPT !.url = UrlOf(cv_request)]
        /\ cv_n = 2 => cv_request = cv_original

\* a structured request with the URL "https://s:" was converted twice
C16_Witness ==
    /\ cv_n = 2
    /\ cv_original = DictRequest([url |-> s_https \o s_sep \o <<"s", ":">>, method |-> "GET"])
    /\ cv_request = cv_original

\* ------------------------------------------------- Part V: UserAgentPool

\* the values self.types is constructed with: the default [win, mac], and the
\* composite types
TypeLists == {<<"win", "mac">>, <<"pc">>, <<"mobile">>, <<"pc", "mobile">>}

\* type_func_dict[typ]: the UA strings of the type's files, each file holding
\* one line, named here after the file
ua_list(typ) ==
    CASE typ = "pc" -> <<"windows.txt", "mac.txt", "linux.txt">>
      [] typ = "mobile" -> <<"android.txt", "ios.txt">>
      [] typ = "win" -> <<"windows.txt">>
      [] typ = "mac" -> <<"mac.txt">>
      [] typ = "linux" -> <<"linux.txt">>
      [] typ = "android" -> <<"android.txt">>
      [] OTHER -> <<"ios.txt">>

\* what init() appends to self.__types for typ
os_types(typ) ==
    CASE typ = "pc" -> <<"win", "mac", "linux">>
      [] typ = "mobile" -> <<"android">>
      [] OTHER -> <<typ>>

\* [x for x in self.__types if x not in [self.compatible, self.ios]]
RECURSIVE without_compatible_ios(_)
without_compatible_ios(types) ==
    IF types = <<>>
    THEN <<>>
    ELSE (IF Head(types) \in {"compatible", "ios"} THEN <<>> ELSE <<Head(types)>>)
             \o without_compatible_ios(Tail(types))

\* no get() of the thread has returned yet
NotObserved == [returned |-> FALSE, types |-> <<>>, user_agents |-> <<>>]

\* UserAgentPool.__init__: a pool shared by the threads, none inside get()
InitUA ==
    /\ PoolIdle /\ DLIdle /\ CPIdle /\ DLXIdle /\ PrepIdle /\ CloseIdle /\ CVIdle
    /\ ua_self_types \in TypeLists
    /\ init_flag = 0
    /\ user_agents = <<>>
    /\ ua_types = <<>>
    /\ upc = [t \in Procs |-> "idle"]
    /\ u_k = [t \in Procs |-> 0]
    /\ ninit = 0
    /\ observed = [t \in Procs |-> NotObserved]

\* get(): if not self.init_flag
UAGetCheck(t) ==
    /\ upc[t] = "idle"
    /\ upc' = [upc EXCEPT ![t] = IF init_flag = 0 THEN "init" ELSE "use"]
    /\ UNCHANGED <<ua_self_types, init_flag, user_agents, ua_types, u_k, ninit, observed,
                   poolVars, dlVars, cpVars, dlxVars, prepVars, closeVars, cvVars>>

\* self.init() is entered: self.init_flag = 1
UAInitFlag(t) ==
    /\ upc[t] = "init"
    /\ init_flag' = 1
    /\ ninit' = ninit + 1
    /\ u_k' = [u_k EXCEPT ![t] = 1]
    /\ upc' = [upc EXCEPT ![t] = "for"]
    /\ UNCHANGED <<ua_self_types, user_agents, ua_types, observed,
                   poolVars, dlVars, cpVars, dlxVars, prepVars, closeVars, cvVars>>

\* one iteration of `for typ in self.types`: both lists are extended
UAInitType(t) ==
    /\ upc[t] = "for"
    /\ u_k[t] <= Len(ua_self_types)
    /\ user_agents' = user_agents \o ua_list(ua_self_types[u_k[t]])
    /\ ua_types' = ua_types \o os_types(ua_self_types[u_k[t]])
    /\ u_k' = [u_k EXCEPT ![t] = @ + 1]
    /\ UNCHANGED <<ua_self_types, init_flag, upc, ninit, observed,
                   poolVars, dlVars, cpVars, dlxVars, prepVars, closeVars, cvVars>>

\* after the loop: self.__types is filtered, and init() returns
UAInitFilter(t) ==
    /\ upc[t] = "for"
    /\ u_k[t] > Len(ua_self_types)
    /\ ua_types' = without_compatible_ios(ua_types)
    /\ u_k' = [u_k EXCEPT ![t] = 0]
    /\ upc' = [upc EXCEPT ![t] = "use"]
    /\ UNCHANGED <<ua_self_types, init_flag, user_agents, ninit, observed,
                   poolVars, dlVars, cpVars, dlxVars, prepVars, closeVars, cvVars>>

\* get() reads self.__types or self.user_agents for the UA it returns
UAGetReturn(t) ==
    /\ upc[t] = "use"
    /\ observed' = [observed EXCEPT ![t] = [returned |-> TRUE, types |-> ua_types,
                                            user_agents |-> user_agents]]
    /\ upc' = [upc EXCEPT ![t] = "idle"]
    /\ UNCHANGED <<ua_self_types, init_flag, user_agents, ua_types, u_k, ninit,
                   poolVars, dlVars, cpVars, dlxVars, prepVars, closeVars, cvVars>>

NextUA ==
    \E t \in Procs :
        \/ UAGetCheck(t)
        \/ UAInitFlag(t)
        \/ UAInitType(t)
        \/ UAInitFilter(t)
        \/ UAGetReturn(t)

SpecUA == InitUA /\ [][NextUA]_vars

\* ------------------------------------------------- Part V: claims

\* the lists of a pool initialized once, from its self.types
RECURSIVE AllOsTypes(_)
AllOsTypes(types) ==
    IF types = <<>> THEN <<>> ELSE os_types(Head(types)) \o AllOsTypes(Tail(types))
RECURSIVE AllUserAgents(_)
AllUserAgents(types) ==
    IF types = <<>> THEN <<>> ELSE ua_list(Head(types)) \o AllUserAgents(Tail(types))

\* C18: over every interleaving of get() calls from several threads on one
\* pool, init() runs at most once, the lists are never extended a second
\* time, and no get() uses a partially initialized pool.
C18_InitOnce ==
    /\ ninit <= 1
    /\ Len(user_agents) <= Len(AllUserAgents(ua_self_types))
    /\ Len(ua_types) <= Len(AllOsTypes(ua_self_types))
    /\ \A t \in Procs :
          observed[t].returned =>
              /\ observed[t].types = without_compatible_ios(AllOsTypes(ua_self_types))
              /\ observed[t].user_agents = AllUserAgents(ua_self_types)

\* ------------------------------------------------- Part II: claims, continued

\* the cookies prepare_request has taken from the pool
Taken == {taken[k] : k \in {j \in 1..Len(taken) : taken[j] # NoCookie}}

C20_DictFlipped ==
    (dpc = "done" /\ runs[1].kind = "dict") =>
        IF outs[1] # NoException
        THEN /\ FlippedFrom(runs[1], caller)
             /\ UrlOf(caller) # UrlOf(runs[1])
        ELSE caller = runs[1]

\* C20 amended: as C20, but the caller's dict has the url that
\* convert_http_protocol returns: the scheme exchanged when the URL begins
\* with "https" or "http:", and the same URL otherwise.
C20_DictConverted ==
    (dpc = "done" /\ runs[1].kind = "dict") =>
        IF outs[1] # NoException
        THEN FlippedFrom(runs[1], caller)
        ELSE caller = runs[1]

\* download was given a dict with an http URL, its first run raised, and it
\* returned a response: the caller's dict has the https URL
C20_Witness ==
    /\ dpc = "done"
    /\ response.kind = "Response"
    /\ runs[1] = DictRequest([url |-> URL_http, method |-> "GET"])
    /\ outs[1] # NoException
    /\ caller = DictRequest([url |-> URL_https, method |-> "GET"])

====
